---- MODULE Spec2Model ----
(***************************************************************************)
(* Verification model of the numeric-set algebra of                        *)
(* faebryk/libs/sets/numeric_sets.py and of the part picker of             *)
(* faebryk/libs/picker/picker.py.                                          *)
(*                                                                         *)
(* Numbers.  A Python number (int, float, +inf, -inf) is modelled as an    *)
(* exact rational [n |-> numerator, d |-> denominator] in lowest terms     *)
(* with d > 0; +inf is [n |-> 1, d |-> 0] and -inf is [n |-> -1, d |-> 0]. *)
(* [n |-> 0, d |-> 0] stands for "no number": float NaN, or the point      *)
(* where a ZeroDivisionError was raised.  0.0 and -0.0 compare equal in    *)
(* Python and are one value here.                                          *)
(*                                                                         *)
(* The sets are immutable and every operation is a pure function, so the   *)
(* state machine is a call record: an action picks the arguments of one    *)
(* operation, applies it and stores the outcome; Return forgets the call.  *)
(*                                                                         *)
(* The picker works on mutable objects.  module is the module handed to    *)
(* pick_module_by_params (its has_part_picked and footprint-pinmap         *)
(* traits); candidates, attempts, picked, progress and pc are the state    *)
(* of one run of pick_topologically.  Spec explores the numeric sets,      *)
(* SpecParams the parameter-predicate picker, SpecTree the pick tree and   *)
(* the topological picker.                                                 *)
(***************************************************************************)
EXTENDS Integers, Sequences, FiniteSets, TLC

VARIABLES op, args, res, err, module, candidates, attempts, picked, progress, pc

callvars == <<op, args, res, err>>
paramvars == <<module>>
topovars == <<candidates, attempts, picked, progress, pc>>

vars == <<op, args, res, err, module, candidates, attempts, picked, progress, pc>>

----------------------------------------------------------------------------
(* Program constants *)

REL_DIGITS == 7
ABS_DIGITS == 15

\* EPSILON_REL = 10 ** -(REL_DIGITS - 1); the model keeps its inverse.
EPSILON_REL_INV == 10 ^ (REL_DIGITS - 1)

----------------------------------------------------------------------------
(* Bounds of the explored inputs *)

\* small integers -MaxVal .. MaxVal
MaxVal == 2
\* values EPSILON_REL_INV + k, k in 0 .. MaxNear, pairwise within or just
\* outside the relative tolerance
MaxNear == 2
\* number of intervals in a constructor bag
MaxBag == 3
\* number of intervals a union argument is built from
MaxUnion == 2
\* number of options handed to pick_module_by_params
MaxOptions == 2
\* number of modules and module interfaces below and including the root
MaxModules == 4

----------------------------------------------------------------------------
(* Numbers *)

RECURSIVE Gcd(_, _)
Gcd(a, b) == IF b = 0 THEN a ELSE Gcd(b, a % b)

AbsInt(k) == IF k < 0 THEN -k ELSE k

MaxInt(a, b) == IF a >= b THEN a ELSE b

NaN == [n |-> 0, d |-> 0]
PInf == [n |-> 1, d |-> 0]
NInf == [n |-> -1, d |-> 0]

\* the rational n/d (d # 0) in lowest terms with a positive denominator
Rat(n, d) ==
    LET g == Gcd(AbsInt(n), AbsInt(d))
        s == IF d < 0 THEN -1 ELSE 1
    IN  [n |-> s * (n \div g), d |-> s * (d \div g)]

Int2Num(k) == [n |-> k, d |-> 1]

Zero == Int2Num(0)

IsNaN(x) == x.d = 0 /\ x.n = 0
IsInf(x) == x.d = 0 /\ x.n # 0

\* x < y on floats; any comparison with NaN is false
Lt(x, y) ==
    IF IsNaN(x) \/ IsNaN(y) THEN FALSE
    ELSE IF x.d = 0 /\ y.d = 0 THEN x.n < y.n
    ELSE x.n * y.d < y.n * x.d

NumEq(x, y) == ~IsNaN(x) /\ ~IsNaN(y) /\ x = y

Le(x, y) == Lt(x, y) \/ NumEq(x, y)

Neg(x) == [n |-> -(x.n), d |-> x.d]

AbsNum(x) == [n |-> AbsInt(x.n), d |-> x.d]

\* x + y on floats: inf + -inf is NaN
Add(x, y) ==
    IF IsNaN(x) \/ IsNaN(y) THEN NaN
    ELSE IF IsInf(x) /\ IsInf(y) THEN (IF x = y THEN x ELSE NaN)
    ELSE IF IsInf(x) THEN x
    ELSE IF IsInf(y) THEN y
    ELSE Rat(x.n * y.d + y.n * x.d, x.d * y.d)

Sub(x, y) == Add(x, Neg(y))

Sign(x) == IF x.n > 0 THEN 1 ELSE IF x.n < 0 THEN -1 ELSE 0

\* x * y on floats: 0 * inf is NaN
Mul(x, y) ==
    IF IsNaN(x) \/ IsNaN(y) THEN NaN
    ELSE IF IsInf(x) \/ IsInf(y)
         THEN [n |-> Sign(x) * Sign(y), d |-> 0]
    ELSE Rat(x.n * y.n, x.d * y.d)

\* x / y on floats; y = 0 raises ZeroDivisionError, kept as NaN
Div(x, y) ==
    IF IsNaN(x) \/ IsNaN(y) THEN NaN
    ELSE IF y = Zero THEN NaN
    ELSE IF IsInf(y) THEN (IF IsInf(x) THEN NaN ELSE Zero)
    ELSE IF IsInf(x) THEN [n |-> Sign(x) * Sign(y), d |-> 0]
    ELSE Rat(x.n * y.d, x.d * y.n)

NumMax(x, y) == IF Lt(x, y) THEN y ELSE x

NumMin(x, y) == IF Lt(y, x) THEN y ELSE x

\* math.isclose(x, y, rel_tol=EPSILON_REL): abs_tol is 0, equal values are
\* close, an infinity is close only to itself, and otherwise
\* |x - y| <= EPSILON_REL * max(|x|, |y|).  Over the common denominator
\* both sides are integers, so the product by EPSILON_REL is a floor
\* division of the right-hand side.
isclose(x, y) ==
    IF IsNaN(x) \/ IsNaN(y) THEN FALSE
    ELSE IF x = y THEN TRUE
    ELSE IF IsInf(x) \/ IsInf(y) THEN FALSE
    ELSE AbsInt(x.n * y.d - y.n * x.d)
            <= MaxInt(AbsInt(x.n) * y.d, AbsInt(y.n) * x.d) \div EPSILON_REL_INV

\* d has no prime factor but 2 and 5, each at most `digits` times: n/d has
\* at most `digits` fractional decimal digits
RECURSIVE StripFactor(_, _, _)
StripFactor(d, p, k) ==
    IF k > 0 /\ d % p = 0 THEN StripFactor(d \div p, p, k - 1) ELSE d

HasAtMostDigits(x, digits) ==
    StripFactor(StripFactor(x.d, 2, digits), 5, digits) = 1

\* round half to even of n/d, d > 0
RoundHalfEven(n, d) ==
    LET q == n \div d
        r == n % d
    IN  IF 2 * r < d THEN q
        ELSE IF 2 * r > d THEN q + 1
        ELSE IF q % 2 = 0 THEN q ELSE q + 1

\* float_round(value, digits): +-inf pass through; a value that already
\* has at most `digits` fractional digits is unchanged (every int is);
\* anything else is rounded to the nearest multiple of 10^-digits.
float_round(value, digits) ==
    IF value.d = 0 THEN value
    ELSE IF HasAtMostDigits(value, digits) THEN value
    ELSE Rat(RoundHalfEven(value.n * (10 ^ digits), value.d), 10 ^ digits)

----------------------------------------------------------------------------
(* Numeric_Interval: a record [min, max].  A union (the `intervals` list   *)
(* of a Numeric_Interval_Disjoint) is a sequence of such records.          *)

\* the outcome of a constructor call that raised (ValueError), or that was
\* handed a bound whose computation raised
Raised == [min |-> NaN, max |-> NaN]

\* Numeric_Interval.__init__
Numeric_Interval(lo, hi) ==
    IF ~Le(lo, hi) THEN Raised
    ELSE IF lo = PInf \/ hi = NInf THEN Raised
    ELSE [min |-> float_round(lo, ABS_DIGITS),
          max |-> float_round(hi, ABS_DIGITS)]

Numeric_Singleton(value) == Numeric_Interval(value, value)

is_finite(self) == self.min # NInf /\ self.max # PInf

\* Numeric_Interval.__contains__
Interval_contains(self, item) ==
    \/ Le(self.min, item) /\ Le(item, self.max)
    \/ isclose(self.min, item)
    \/ isclose(self.max, item)

\* Numeric_Interval.__eq__
Interval_eq(self, other) ==
    isclose(self.min, other.min) /\ isclose(self.max, other.max)

\* Python parses  a or b and c or d  as  a or (b and c) or d
is_subset_of(self, other) ==
    \/ Le(other.min, self.min)
    \/ isclose(self.min, other.min) /\ Le(self.max, other.max)
    \/ isclose(self.max, other.max)

as_center_rel(self) ==
    IF self.min = self.max THEN [center |-> self.min, rel |-> Zero]
    ELSE LET center == Div(Add(self.min, self.max), Int2Num(2))
         IN  IF center = Zero
             THEN [center |-> center,
                   rel |-> Div(Sub(self.max, self.min), Int2Num(2))]
             ELSE [center |-> center,
                   rel |-> Div(Div(Sub(self.max, self.min), Int2Num(2)),
                               center)]

RECURSIVE SeqMin(_)
SeqMin(s) ==
    IF Len(s) = 1 THEN s[1] ELSE NumMin(s[1], SeqMin(Tail(s)))

RECURSIVE SeqMax(_)
SeqMax(s) ==
    IF Len(s) = 1 THEN s[1] ELSE NumMax(s[1], SeqMax(Tail(s)))

\* faulty variant of guarded_mul: the zero guard is missing, 0 * inf is NaN
guarded_mul_unguarded(a, b) == <<Mul(a, b)>>

\* 0 * inf -> 0, 0 * -inf -> 0
guarded_mul(a, b) ==
    IF a = Zero \/ b = Zero THEN <<Zero>> ELSE <<Mul(a, b)>>

op_mul_interval(self, other) ==
    LET values == guarded_mul(self.min, other.min)
                  \o guarded_mul(self.min, other.max)
                  \o guarded_mul(self.max, other.min)
                  \o guarded_mul(self.max, other.max)
    IN  Numeric_Interval(SeqMin(values), SeqMax(values))

maybe_merge_interval(self, other) ==
    LET is_left == Le(self.min, other.min)
        left == IF is_left THEN self ELSE other
        right == IF is_left THEN other ELSE self
    IN  IF Interval_contains(self, right.min)
        THEN <<Numeric_Interval(left.min, NumMax(left.max, right.max))>>
        ELSE <<left, right>>

----------------------------------------------------------------------------
(* Numeric_Interval_Disjoint *)

\* A constructor argument is an interval or a union.
IntervalItem(I) == [is_disjoint |-> FALSE, intervals |-> <<I>>]
DisjointItem(U) == [is_disjoint |-> TRUE, intervals |-> U]

Item_is_empty(r) == r.is_disjoint /\ Len(r.intervals) = 0

RECURSIVE gen_flat_non_empty(_)
gen_flat_non_empty(items) ==
    IF Len(items) = 0 THEN <<>>
    ELSE LET r == Head(items)
         IN  IF Item_is_empty(r) THEN gen_flat_non_empty(Tail(items))
             ELSE r.intervals \o gen_flat_non_empty(Tail(items))

\* insert e behind every element whose key is <= its own (stable)
RECURSIVE InsertByMin(_, _)
InsertByMin(e, s) ==
    IF Len(s) = 0 THEN <<e>>
    ELSE IF Lt(e.min, Head(s).min) THEN <<e>> \o s
    ELSE <<Head(s)>> \o InsertByMin(e, Tail(s))

\* sorted(non_empty_intervals, key=lambda e: e.min_elem)
RECURSIVE sorted(_)
sorted(s) ==
    IF Len(s) = 0 THEN <<>>
    ELSE InsertByMin(s[Len(s)], sorted(SubSeq(s, 1, Len(s) - 1)))

RECURSIVE gen_merge_from(_, _)
gen_merge_from(last, rest) ==
    IF Len(rest) = 0 THEN <<last>>
    ELSE LET m == maybe_merge_interval(last, Head(rest))
         IN  SubSeq(m, 1, Len(m) - 1) \o gen_merge_from(m[Len(m)], Tail(rest))

gen_merge(sorted_intervals) ==
    IF Len(sorted_intervals) = 0 THEN <<>>
    ELSE gen_merge_from(Head(sorted_intervals), Tail(sorted_intervals))

\* Numeric_Interval_Disjoint.__init__: the value is the `intervals` list
Numeric_Interval_Disjoint(items) ==
    gen_merge(sorted(gen_flat_non_empty(items)))

Numeric_Set_Empty == Numeric_Interval_Disjoint(<<>>)

Numeric_Set_Discrete(values) ==
    Numeric_Interval_Disjoint(
        [i \in 1 .. Len(values) |-> IntervalItem(Numeric_Singleton(values[i]))])

AsIntervalItems(s) == [i \in 1 .. Len(s) |-> IntervalItem(s[i])]
AsDisjointItems(s) == [i \in 1 .. Len(s) |-> DisjointItem(s[i])]

is_empty(self) == Len(self) = 0

\* bisect(intervals, target, key=lambda r: r.min_elem), i.e. bisect_right
RECURSIVE bisect_from(_, _, _, _)
bisect_from(a, x, lo, hi) ==
    IF lo < hi
    THEN LET mid == (lo + hi) \div 2
         IN  IF Lt(x, a[mid + 1].min)
             THEN bisect_from(a, x, lo, mid)
             ELSE bisect_from(a, x, mid + 1, hi)
    ELSE lo

bisect(a, x) == bisect_from(a, x, 0, Len(a))

\* Numeric_Interval_Disjoint.__contains__
Disjoint_contains(self, item) ==
    LET index == bisect(self, item)
    IN  IF index = 0 THEN FALSE
        ELSE Interval_contains(self[index], item)

\* Numeric_Interval_Disjoint.__eq__
Disjoint_eq(self, value) ==
    /\ Len(self) = Len(value)
    /\ \A i \in 1 .. Len(self) : Interval_eq(self[i], value[i])

----------------------------------------------------------------------------
(* Interval operations that return a union *)

One == Int2Num(1)

\* faulty variant of op_invert: the branch for min == 0 < max is missing
op_invert_no_zero_min(self) ==
    IF self.min = Zero /\ Zero = self.max THEN Numeric_Set_Empty
    ELSE IF Lt(self.min, Zero) /\ Lt(Zero, self.max)
    THEN Numeric_Interval_Disjoint(
            <<IntervalItem(Numeric_Interval(NInf, Div(One, self.min))),
              IntervalItem(Numeric_Interval(Div(One, self.max), PInf))>>)
    ELSE IF Lt(self.min, Zero) /\ Zero = self.max
    THEN Numeric_Interval_Disjoint(
            <<IntervalItem(Numeric_Interval(NInf, Div(One, self.min)))>>)
    ELSE Numeric_Interval_Disjoint(
            <<IntervalItem(Numeric_Interval(Div(One, self.max),
                                            Div(One, self.min)))>>)

\* Numeric_Interval.op_invert; 1 / 0 raises and leaves a Raised interval
op_invert(self) ==
    IF self.min = Zero /\ Zero = self.max THEN Numeric_Set_Empty
    ELSE IF Lt(self.min, Zero) /\ Lt(Zero, self.max)
    THEN Numeric_Interval_Disjoint(
            <<IntervalItem(Numeric_Interval(NInf, Div(One, self.min))),
              IntervalItem(Numeric_Interval(Div(One, self.max), PInf))>>)
    ELSE IF Lt(self.min, Zero) /\ Zero = self.max
    THEN Numeric_Interval_Disjoint(
            <<IntervalItem(Numeric_Interval(NInf, Div(One, self.min)))>>)
    ELSE IF self.min = Zero /\ Lt(Zero, self.max)
    THEN Numeric_Interval_Disjoint(
            <<IntervalItem(Numeric_Interval(Div(One, self.max), PInf))>>)
    ELSE Numeric_Interval_Disjoint(
            <<IntervalItem(Numeric_Interval(Div(One, self.max),
                                            Div(One, self.min)))>>)

\* faulty variant of op_intersect_interval: min_ is the smaller lower bound
op_intersect_interval_min_of_mins(self, other) ==
    LET min_ == NumMin(self.min, other.min)
        max_ == NumMin(self.max, other.max)
    IN  IF Le(min_, max_)
        THEN Numeric_Interval_Disjoint(
                <<IntervalItem(Numeric_Interval(min_, max_))>>)
        ELSE IF isclose(min_, max_) THEN Numeric_Set_Discrete(<<min_>>)
        ELSE Numeric_Set_Empty

\* Numeric_Interval.op_intersect_interval
op_intersect_interval(self, other) ==
    LET min_ == NumMax(self.min, other.min)
        max_ == NumMin(self.max, other.max)
    IN  IF Le(min_, max_)
        THEN Numeric_Interval_Disjoint(
                <<IntervalItem(Numeric_Interval(min_, max_))>>)
        ELSE IF isclose(min_, max_) THEN Numeric_Set_Discrete(<<min_>>)
        ELSE Numeric_Set_Empty

\* faulty variant of op_difference_interval: the right overlap is cut at
\* other.max instead of other.min
op_difference_interval_cut_at_max(self, other) ==
    IF Lt(self.max, other.min) \/ Lt(other.max, self.min)
    THEN Numeric_Interval_Disjoint(<<IntervalItem(self)>>)
    ELSE IF Le(other.min, self.min) /\ Le(self.max, other.max)
    THEN Numeric_Set_Empty
    ELSE IF Lt(self.min, other.min) /\ Lt(other.max, self.max)
    THEN Numeric_Interval_Disjoint(
            <<IntervalItem(Numeric_Interval(self.min, other.min)),
              IntervalItem(Numeric_Interval(other.max, self.max))>>)
    ELSE IF Lt(self.min, other.min)
    THEN Numeric_Interval_Disjoint(
            <<IntervalItem(Numeric_Interval(self.min, other.max))>>)
    ELSE Numeric_Interval_Disjoint(
            <<IntervalItem(Numeric_Interval(other.max, self.max))>>)

\* Numeric_Interval.op_difference_interval
op_difference_interval(self, other) ==
    IF Lt(self.max, other.min) \/ Lt(other.max, self.min)
    THEN Numeric_Interval_Disjoint(<<IntervalItem(self)>>)
    ELSE IF Le(other.min, self.min) /\ Le(self.max, other.max)
    THEN Numeric_Set_Empty
    ELSE IF Lt(self.min, other.min) /\ Lt(other.max, self.max)
    THEN Numeric_Interval_Disjoint(
            <<IntervalItem(Numeric_Interval(self.min, other.min)),
              IntervalItem(Numeric_Interval(other.max, self.max))>>)
    ELSE IF Lt(self.min, other.min)
    THEN Numeric_Interval_Disjoint(
            <<IntervalItem(Numeric_Interval(self.min, other.min))>>)
    ELSE Numeric_Interval_Disjoint(
            <<IntervalItem(Numeric_Interval(other.max, self.max))>>)

----------------------------------------------------------------------------
(* Numeric_Interval_Disjoint operations *)

min_elem(self) == self[1].min
max_elem(self) == self[Len(self)].max

\* Numeric_Interval_Disjoint.op_intersect_interval
Disjoint_op_intersect_interval(self, other) ==
    Numeric_Interval_Disjoint(
        AsDisjointItems([i \in 1 .. Len(self) |->
                            op_intersect_interval(self[i], other)]))

op_union_intervals(self, other) ==
    Numeric_Interval_Disjoint(AsIntervalItems(self \o other))

\* A BoolSet is the set of its members.
BoolSet(values) == values

op_ge_intervals(self, other) ==
    IF is_empty(self) \/ is_empty(other) THEN BoolSet({})
    ELSE IF Le(max_elem(other), min_elem(self)) THEN BoolSet({TRUE})
    ELSE IF Lt(max_elem(self), min_elem(other)) THEN BoolSet({FALSE})
    ELSE BoolSet({TRUE, FALSE})

\* faulty variant of op_gt_intervals: {true} already when min >= max
op_gt_intervals_non_strict(self, other) ==
    IF is_empty(self) \/ is_empty(other) THEN BoolSet({})
    ELSE IF Le(max_elem(other), min_elem(self)) THEN BoolSet({TRUE})
    ELSE IF Le(max_elem(self), min_elem(other)) THEN BoolSet({FALSE})
    ELSE BoolSet({TRUE, FALSE})

op_gt_intervals(self, other) ==
    IF is_empty(self) \/ is_empty(other) THEN BoolSet({})
    ELSE IF Lt(max_elem(other), min_elem(self)) THEN BoolSet({TRUE})
    ELSE IF Le(max_elem(self), min_elem(other)) THEN BoolSet({FALSE})
    ELSE BoolSet({TRUE, FALSE})

op_le_intervals(self, other) ==
    IF is_empty(self) \/ is_empty(other) THEN BoolSet({})
    ELSE IF Le(max_elem(self), min_elem(other)) THEN BoolSet({TRUE})
    ELSE IF Lt(max_elem(other), min_elem(self)) THEN BoolSet({FALSE})
    ELSE BoolSet({TRUE, FALSE})

op_lt_intervals(self, other) ==
    IF is_empty(self) \/ is_empty(other) THEN BoolSet({})
    ELSE IF Lt(max_elem(self), min_elem(other)) THEN BoolSet({TRUE})
    ELSE IF Le(max_elem(other), min_elem(self)) THEN BoolSet({FALSE})
    ELSE BoolSet({TRUE, FALSE})

\* closest_elem: the outcome is the raised error or the returned value.
\* With both neighbours present, unpacking [one] fails and the handler
\* asserts `left_bound and right_bound`, which is false for a bound of 0.
closest_elem(self, target) ==
    IF is_empty(self) THEN [raised |-> "ValueError", value |-> NaN]
    ELSE LET index == bisect(self, target)
             has_left == index > 0
             has_right == index < Len(self)
             left_bound == self[index].max
             right_bound == self[index + 1].min
         IN  IF has_left /\ Interval_contains(self[index], target)
             THEN [raised |-> "none", value |-> target]
             ELSE IF has_left /\ ~has_right
             THEN [raised |-> "none", value |-> left_bound]
             ELSE IF ~has_left /\ has_right
             THEN [raised |-> "none", value |-> right_bound]
             ELSE IF ~has_left /\ ~has_right
             THEN [raised |-> "AssertionError", value |-> NaN]
             ELSE IF left_bound = Zero \/ right_bound = Zero
             THEN [raised |-> "AssertionError", value |-> NaN]
             ELSE IF Lt(Sub(target, left_bound), Sub(right_bound, target))
             THEN [raised |-> "none", value |-> left_bound]
             ELSE [raised |-> "none", value |-> right_bound]

----------------------------------------------------------------------------
(* Inputs *)

SmallVals == {Int2Num(k) : k \in (-MaxVal) .. MaxVal}

\* EPSILON_REL_INV + k and EPSILON_REL_INV + k + 1 are tolerance-close,
\* EPSILON_REL_INV + k and EPSILON_REL_INV + k + 2 are not
NearVals == {Int2Num(EPSILON_REL_INV + k) : k \in 0 .. MaxNear}

SetVals == SmallVals \cup NearVals

ExtVals == SmallVals \cup {NInf, PInf}

\* bounds of the unions that are compared and searched: negative, zero,
\* positive and infinite
CmpVals == {Int2Num(k) : k \in (-1) .. (MaxVal - 1)} \cup {NInf, PInf}

BagVals == {Zero} \cup NearVals

\* finite targets in steps of 1/2, reaching one past the small bounds on
\* either side
Targets == {Rat(k, 2) : k \in (-2 * (MaxVal + 1)) .. (2 * (MaxVal + 1))}

\* every interval the constructor accepts with bounds in V
IntervalsOver(V) == {Numeric_Interval(lo, hi) : lo \in V, hi \in V} \ {Raised}

SeqsUpTo(S, n) == UNION {[1 .. k -> S] : k \in 0 .. n}

\* every union the constructor builds from at most n intervals over V
UnionsOver(V, n) ==
    {Numeric_Interval_Disjoint(AsIntervalItems(s)) :
        s \in SeqsUpTo(IntervalsOver(V), n)}

SetIntervals == IntervalsOver(SetVals)
ExtIntervals == IntervalsOver(ExtVals)
BagUnions == UnionsOver(BagVals, MaxUnion)
CmpUnions == UnionsOver(CmpVals, MaxUnion)

\* bounds whose reciprocal has at most ABS_DIGITS decimals
InvertVals ==
    {v \in ExtVals : v = Zero \/ HasAtMostDigits(Div(One, v), ABS_DIGITS)}

\* a constructor bag: the first k intervals of s passed as intervals, the
\* others passed as one nested union (the empty union when k = Len(s))
MkBag(s, k) ==
    AsIntervalItems(SubSeq(s, 1, k))
    \o <<DisjointItem(Numeric_Interval_Disjoint(
            AsIntervalItems(SubSeq(s, k + 1, Len(s)))))>>

Flat(items) == gen_flat_non_empty(items)

----------------------------------------------------------------------------
(* Picker objects *)

\* An optional value: None, or Some(x).
None == <<>>
Some(x) == <<x>>

\* Part(partno, supplier): a frozen dataclass, equal by its two fields.
Part(partno, supplier) == [partno |-> partno, supplier |-> supplier]

\* PickerOption: a frozen dataclass of five fields.
PickerOption(part, params, filter, pinmap, info) ==
    [part |-> part, params |-> params, filter |-> filter,
     pinmap |-> pinmap, info |-> info]

PickerOption_eq_by_part(self, other) == self.part = other.part

\* The generated __eq__ of the dataclass compares the tuples of all fields.
PickerOption_eq(self, other) ==
    <<self.part, self.params, self.filter, self.pinmap, self.info>>
        = <<other.part, other.params, other.filter, other.pinmap, other.info>>

\* hash(part) of a frozen dataclass is the hash of its field tuple; the
\* tuple itself stands for it.
Part_hash(part) == <<part.partno, part.supplier>>

PickerOption_hash(self) == Part_hash(self.part)

\* A module before any pick: no has_part_picked trait, no
\* can_attach_to_footprint_via_pinmap trait.
FreshModule ==
    [has_part_picked |-> None, can_attach_to_footprint_via_pinmap |-> None]

\* Tree(): a dict from module to subtree, kept as the sequence of its
\* entries in insertion order.
EmptyTree == <<>>

\* rich's Progress before add_task: the task total, the completed count,
\* the disable flag and the amounts advance was called with
NoProgress ==
    [total |-> 0, completed |-> 0, disable |-> FALSE, advances |-> <<>>]

----------------------------------------------------------------------------
(* The call record *)

NoArgs == [none |-> TRUE]

Init ==
    /\ op = "none"
    /\ args = NoArgs
    /\ res = NoArgs
    /\ err = "none"
    /\ module = FreshModule
    /\ candidates = EmptyTree
    /\ attempts = <<>>
    /\ picked = {}
    /\ progress = NoProgress
    /\ pc = "idle"

Idle == op = "none"

Call(name, a, r, e) ==
    /\ op' = name
    /\ args' = a
    /\ res' = r
    /\ err' = e
    /\ UNCHANGED <<paramvars, topovars>>

HasRaised(U) == \E i \in 1 .. Len(U) : U[i] = Raised

ErrOf(U) == IF HasRaised(U) THEN "raised" ELSE "none"

CallConstruct ==
    /\ Idle
    /\ \E s \in SeqsUpTo(IntervalsOver(BagVals), MaxBag) :
           \E k \in 0 .. Len(s) :
               LET bag == MkBag(s, k)
               IN  Call("Numeric_Interval_Disjoint", [bag |-> bag],
                        [intervals |-> Numeric_Interval_Disjoint(bag)], "none")

CallIsSubsetOf ==
    /\ Idle
    /\ \E A \in SetIntervals, B \in SetIntervals :
           Call("is_subset_of", [self |-> A, other |-> B],
                [value |-> is_subset_of(A, B)], "none")

CallMaybeMerge ==
    /\ Idle
    /\ \E A \in SetIntervals, B \in SetIntervals :
           Call("maybe_merge_interval", [self |-> A, other |-> B],
                [list |-> maybe_merge_interval(A, B)], "none")

CallDifference ==
    /\ Idle
    /\ \E A \in SetIntervals, B \in SetIntervals :
           LET r == op_difference_interval(A, B)
           IN  Call("op_difference_interval", [self |-> A, other |-> B],
                    [intervals |-> r], ErrOf(r))

CallIntersect ==
    /\ Idle
    /\ \E A \in SetIntervals, B \in SetIntervals :
           LET r == op_intersect_interval(A, B)
           IN  Call("op_intersect_interval", [self |-> A, other |-> B],
                    [intervals |-> r], ErrOf(r))

CallUnion ==
    /\ Idle
    /\ \E U \in BagUnions, V \in BagUnions :
           LET r == op_union_intervals(U, V)
           IN  Call("op_union_intervals", [self |-> U, other |-> V],
                    [intervals |-> r], ErrOf(r))

CallGe ==
    /\ Idle
    /\ \E U \in CmpUnions, V \in CmpUnions :
           Call("op_ge_intervals", [self |-> U, other |-> V],
                [value |-> op_ge_intervals(U, V)], "none")

CallGt ==
    /\ Idle
    /\ \E U \in CmpUnions, V \in CmpUnions :
           Call("op_gt_intervals", [self |-> U, other |-> V],
                [value |-> op_gt_intervals(U, V)], "none")

CallLe ==
    /\ Idle
    /\ \E U \in CmpUnions, V \in CmpUnions :
           Call("op_le_intervals", [self |-> U, other |-> V],
                [value |-> op_le_intervals(U, V)], "none")

CallLt ==
    /\ Idle
    /\ \E U \in CmpUnions, V \in CmpUnions :
           Call("op_lt_intervals", [self |-> U, other |-> V],
                [value |-> op_lt_intervals(U, V)], "none")

CallClosestElem ==
    /\ Idle
    /\ \E U \in CmpUnions, t \in Targets :
           LET r == closest_elem(U, t)
           IN  Call("closest_elem", [self |-> U, target |-> t],
                    [value |-> r.value], r.raised)

CallMul ==
    /\ Idle
    /\ \E A \in ExtIntervals, B \in ExtIntervals :
           LET r == op_mul_interval(A, B)
           IN  Call("op_mul_interval", [self |-> A, other |-> B],
                    [interval |-> r], ErrOf(<<r>>))

CallInvert ==
    /\ Idle
    /\ \E A \in IntervalsOver(InvertVals) :
           LET r == op_invert(A)
           IN  Call("op_invert", [self |-> A], [intervals |-> r], ErrOf(r))

CallCenterRel ==
    /\ Idle
    /\ \E A \in SetIntervals :
           Call("as_center_rel", [self |-> A], as_center_rel(A), "none")

Return ==
    /\ ~Idle
    /\ pc = "idle"
    /\ op' = "none"
    /\ args' = NoArgs
    /\ res' = NoArgs
    /\ err' = "none"
    /\ UNCHANGED <<paramvars, topovars>>

Next ==
    \/ CallConstruct
    \/ CallIsSubsetOf
    \/ CallMaybeMerge
    \/ CallDifference
    \/ CallIntersect
    \/ CallUnion
    \/ CallGe
    \/ CallGt
    \/ CallLe
    \/ CallLt
    \/ CallClosestElem
    \/ CallMul
    \/ CallInvert
    \/ CallCenterRel
    \/ Return

Spec == Init /\ [][Next]_vars

----------------------------------------------------------------------------
(* pick_module_by_params *)

has_trait_never(mod, trait) == FALSE

\* module.has_trait(trait)
has_trait(mod, trait) == mod[trait] # None

\* names of the module's direct Parameter children (the keys of params)
ModuleParams == {"resistance"}

\* k.startswith("_")
startswith_underscore(k) == k \in {"_cost"}

\* o.filter(module): what the callable answers for the module
filter_call(f) == f = "accept"

\* not o.filter or o.filter(module)
passes_filter(o) == o.filter = None \/ filter_call(o.filter[1])

filtered_options_unfiltered(options) == options

filtered_options(options) == SelectSeq(options, passes_filter)

\* the items of (o.params or {}) whose key is not private
public_items(o) ==
    IF o.params = None THEN <<>>
    ELSE SelectSeq(o.params[1], LAMBDA kv : ~startswith_underscore(kv.k))

Is(param, literal) == [op |-> "Is", param |-> param, literal |-> literal]
True == [op |-> "True", param |-> "", literal |-> ""]
And(operands) == [op |-> "And", operands |-> operands]
Or(operands) == [op |-> "Or", operands |-> operands]

\* params[k] raises KeyError for a name the module does not have
raises_KeyError(o) ==
    \E i \in 1 .. Len(public_items(o)) : public_items(o)[i].k \notin ModuleParams

predicate_of(o) ==
    LET items == public_items(o)
        predicate_list == [i \in 1 .. Len(items) |-> Is(items[i].k, items[i].v)]
    IN  IF Len(predicate_list) = 0 THEN Or(<<True>>) ELSE And(predicate_list)

\* d[key] = value on a dict kept as its entries in insertion order: a key
\* with the same hash that compares equal keeps its place and the stored
\* key object, and takes the new value
same_key(a, b) ==
    PickerOption_hash(a) = PickerOption_hash(b) /\ PickerOption_eq(a, b)

dict_setitem(d, key, value) ==
    IF \E i \in 1 .. Len(d) : same_key(d[i].key, key)
    THEN [i \in 1 .. Len(d) |->
              IF same_key(d[i].key, key)
              THEN [key |-> d[i].key, value |-> value] ELSE d[i]]
    ELSE Append(d, [key |-> key, value |-> value])

\* the loop over filtered_options that fills predicates
RECURSIVE build_predicates(_, _)
build_predicates(todo, predicates) ==
    IF Len(todo) = 0 THEN [raised |-> FALSE, predicates |-> predicates]
    ELSE IF raises_KeyError(Head(todo))
    THEN [raised |-> TRUE, predicates |-> predicates]
    ELSE build_predicates(Tail(todo),
             dict_setitem(predicates, Head(todo), predicate_of(Head(todo))))

\* [(p, k) for k, p in predicates.items()]
solver_query(predicates) ==
    [i \in 1 .. Len(predicates) |->
        [predicate |-> predicates[i].value, tag |-> predicates[i].key]]

chosen_option_last(true_predicates) ==
    true_predicates[Len(true_predicates)].tag

\* _, option = next(iter(solve_result.true_predicates))
chosen_option(true_predicates) == true_predicates[1].tag

PickOutcome(mod, value, e, events, attached, predicates) ==
    [module |-> mod, value |-> value, err |-> e, events |-> events,
     attached |-> attached, predicates |-> predicates]

\* true_predicates is what solver.assert_any_predicate answers when asked
pick_module_by_params(mod, options, true_predicates) ==
    IF has_trait(mod, "has_part_picked")
    THEN PickOutcome(mod, None, "none", <<>>, <<>>, <<>>)
    ELSE
    LET built == build_predicates(filtered_options(options), <<>>)
        predicates == built.predicates
    IN  IF built.raised
        THEN PickOutcome(mod, None, "KeyError", <<>>, <<>>, predicates)
        ELSE IF Len(predicates) = 0
        THEN PickOutcome(mod, None, "PickErrorParams", <<>>, <<>>, predicates)
        ELSE IF Len(true_predicates) = 0
        THEN PickOutcome(mod, None, "PickErrorParams",
                         <<"solver.assert_any_predicate">>, <<>>, predicates)
        ELSE
        LET option == chosen_option(true_predicates)
            with_pinmap ==
                IF option.pinmap # None
                THEN [mod EXCEPT !.can_attach_to_footprint_via_pinmap =
                                     option.pinmap]
                ELSE mod
        IN  PickOutcome(
                [with_pinmap EXCEPT !.has_part_picked = Some(option.part)],
                Some(option), "none",
                <<"solver.assert_any_predicate">>
                    \o (IF option.pinmap # None
                        THEN <<"add can_attach_to_footprint_via_pinmap">>
                        ELSE <<>>)
                    \o <<"supplier.attach", "add has_part_picked">>,
                <<option>>, predicates)

\* Inputs of the picker
Parts == {Part("P1", "LCSC"), Part("P2", "LCSC")}

\* no params; a private key and a parameter of the module; a parameter the
\* module does not have
ParamChoices ==
    {None,
     Some(<<[k |-> "_cost", v |-> "1"], [k |-> "resistance", v |-> "10k"]>>),
     Some(<<[k |-> "inductance", v |-> "1u"]>>)}

FilterChoices == {None, Some("accept"), Some("reject")}
PinmapChoices == {None, Some("pinmap")}
InfoChoices == {None, Some("info")}

Options ==
    {PickerOption(p, pa, f, pm, None) :
        p \in Parts, pa \in ParamChoices, f \in FilterChoices,
        pm \in PinmapChoices}

AllOptions ==
    {PickerOption(p, pa, f, pm, i) :
        p \in Parts, pa \in ParamChoices, f \in FilterChoices,
        pm \in PinmapChoices, i \in InfoChoices}

OptionLists == SeqsUpTo(Options, MaxOptions)

\* whether the call reaches solver.assert_any_predicate
asks_solver(mod, options) ==
    /\ ~has_trait(mod, "has_part_picked")
    /\ ~build_predicates(filtered_options(options), <<>>).raised
    /\ Len(build_predicates(filtered_options(options), <<>>).predicates) > 0

\* The solver answers with the pairs it proved, in an order of its own.
SolverAnswers(query) ==
    {[i \in 1 .. Len(ix) |-> query[ix[i]]] :
        ix \in {f \in SeqsUpTo(1 .. Len(query), Len(query)) :
                   \A i, j \in 1 .. Len(f) : i # j => f[i] # f[j]}}

CallPickerOptionEq ==
    /\ Idle
    /\ \E a \in AllOptions, b \in AllOptions :
           Call("PickerOption.__eq__", [self |-> a, other |-> b],
                [value |-> PickerOption_eq(a, b),
                 hash_self |-> PickerOption_hash(a),
                 hash_other |-> PickerOption_hash(b)], "none")

CallPickModuleByParams ==
    /\ Idle
    /\ \E options \in OptionLists :
         \E true_predicates \in
                IF asks_solver(module, options)
                THEN SolverAnswers(solver_query(
                         build_predicates(filtered_options(options),
                                          <<>>).predicates))
                ELSE {<<>>} :
            LET r == pick_module_by_params(module, options, true_predicates)
            IN  /\ op' = "pick_module_by_params"
                /\ args' = [module |-> module, options |-> options,
                            true_predicates |-> true_predicates]
                /\ res' = [value |-> r.value, events |-> r.events,
                           attached |-> r.attached,
                           predicates |-> r.predicates]
                /\ err' = r.err
                /\ module' = r.module
                /\ UNCHANGED topovars

NextParams ==
    \/ CallPickerOptionEq
    \/ CallPickModuleByParams
    \/ Return

SpecParams == Init /\ [][NextParams]_vars

----------------------------------------------------------------------------
(* Tree: a dict from module to subtree *)

\* tree[key] = value
tree_setitem(t, key, value) ==
    IF \E i \in 1 .. Len(t) : t[i].key = key
    THEN [i \in 1 .. Len(t) |->
              IF t[i].key = key THEN [key |-> key, value |-> value] ELSE t[i]]
    ELSE Append(t, [key |-> key, value |-> value])

\* t.update(other): the entries of other, in their order
RECURSIVE tree_update(_, _)
tree_update(t, other) ==
    IF Len(other) = 0 THEN t
    ELSE tree_update(tree_setitem(t, Head(other).key, Head(other).value),
                     Tail(other))

popitem_keep(t) ==
    [key |-> t[Len(t)].key, value |-> t[Len(t)].value, rest |-> t]

popitem_first(t) == [key |-> t[1].key, value |-> t[1].value, rest |-> Tail(t)]

\* t.popitem(): removes and returns the pair inserted last
popitem(t) ==
    [key |-> t[Len(t)].key, value |-> t[Len(t)].value,
     rest |-> SubSeq(t, 1, Len(t) - 1)]

\* t.leaves(): the modules whose subtree is empty, in order
RECURSIVE leaves(_)
leaves(t) ==
    IF Len(t) = 0 THEN <<>>
    ELSE (IF Len(Head(t).value) = 0 THEN <<Head(t).key>>
          ELSE leaves(Head(t).value)) \o leaves(Tail(t))

\* t.get_subtree(node): the subtree stored for node, wherever it is
RECURSIVE get_subtree(_, _)
get_subtree(t, node) ==
    IF Len(t) = 0 THEN EmptyTree
    ELSE IF Head(t).key = node THEN Head(t).value
    ELSE IF Len(get_subtree(Head(t).value, node)) > 0
    THEN get_subtree(Head(t).value, node)
    ELSE get_subtree(Tail(t), node)

----------------------------------------------------------------------------
(* get_pick_tree *)

\* A node of the module graph.  has_picker, skip_self_pick and
\* has_part_picked are Module traits: a ModuleInterface has none of them.
Node(type, has_picker, skip_self_pick, has_part_picked) ==
    [type |-> type, has_picker |-> has_picker,
     skip_self_pick |-> skip_self_pick, has_part_picked |-> has_part_picked]

Trait == Some("trait")

NodeKinds ==
    {Node("ModuleInterface", None, None, None),
     Node("Module", None, None, None),
     Node("Module", Trait, None, None),
     Node("Module", Trait, Trait, None),
     Node("Module", Trait, None, Trait)}

\* A tree-shaped module graph: node 1 is the root, parent[m] < m is the
\* parent of m, and get_children lists the children by rising index.  Every
\* module is its own most special one.
ParentSeqs(n) ==
    {p \in [1 .. n -> 0 .. (n - 1)] :
        /\ p[1] = 0
        /\ \A m \in 2 .. n : 1 <= p[m] /\ p[m] < m}

Graph(parent, nodes) == [parent |-> parent, nodes |-> nodes]

GraphSizes == 1 .. MaxModules

\* module.get_children(direct_only=True, types=(Module, ModuleInterface))
get_children(graph, m) ==
    SelectSeq([i \in 1 .. Len(graph.parent) |-> i],
              LAMBDA c : graph.parent[c] = m)

is_self_pick_despite_skip(node) == has_trait(node, "has_picker")

\* module.has_trait(F.has_picker) and not module.has_trait(skip_self_pick)
is_self_pick(node) ==
    has_trait(node, "has_picker") /\ ~has_trait(node, "skip_self_pick")

RECURSIVE get_pick_tree(_, _)
RECURSIVE merge_children(_, _, _)

\* the loop over the children: merge_tree.update(get_pick_tree(child))
merge_children(graph, todo, merge_tree) ==
    IF Len(todo) = 0 THEN merge_tree
    ELSE merge_children(graph, Tail(todo),
             tree_update(merge_tree, get_pick_tree(graph, Head(todo))))

get_pick_tree_children_beside(graph, m) ==
    IF has_trait(graph.nodes[m], "has_part_picked") THEN EmptyTree
    ELSE IF is_self_pick(graph.nodes[m])
    THEN merge_children(graph, get_children(graph, m),
                        tree_setitem(EmptyTree, m, EmptyTree))
    ELSE merge_children(graph, get_children(graph, m), EmptyTree)

get_pick_tree(graph, m) ==
    IF has_trait(graph.nodes[m], "has_part_picked") THEN EmptyTree
    ELSE IF is_self_pick(graph.nodes[m])
    THEN tree_setitem(EmptyTree, m,
             merge_children(graph, get_children(graph, m), EmptyTree))
    ELSE merge_children(graph, get_children(graph, m), EmptyTree)

CallGetPickTree ==
    /\ Idle
    /\ pc = "idle"
    /\ \E n \in GraphSizes :
         \E parent \in ParentSeqs(n), nodes \in [1 .. n -> NodeKinds] :
           LET graph == Graph(parent, nodes)
           IN  Call("get_pick_tree", [graph |-> graph, module |-> 1],
                    [tree |-> get_pick_tree(graph, 1)], "none")

----------------------------------------------------------------------------
(* PickErrorChildren *)

\* PickError(message, module) and its subclasses; children is the dict of a
\* PickErrorChildren, empty for the others
PickError(type, mod, children) ==
    [type |-> type, module |-> mod, children |-> children]

\* isinstance(v, PickErrorChildren)
is_PickErrorChildren(v) == v.type = "PickErrorChildren"

\* a | b on dicts: the entries of a, updated with those of b
dict_union(a, b) == tree_update(a, b)

get_all_children_direct(self) == self.children

RECURSIVE get_all_children(_)
RECURSIVE nested_children(_, _)

\* the second comprehension: for every child that is a PickErrorChildren,
\* in order, the items of its get_all_children()
nested_children(values, acc) ==
    IF Len(values) = 0 THEN acc
    ELSE nested_children(Tail(values),
             IF is_PickErrorChildren(Head(values).value)
             THEN tree_update(acc, get_all_children(Head(values).value))
             ELSE acc)

get_all_children(self) ==
    dict_union(
        SelectSeq(self.children, LAMBDA e : ~is_PickErrorChildren(e.value)),
        nested_children(self.children, <<>>))

\* The errors a failed run hands up: node 1 is the outer PickErrorChildren,
\* the error of module m is a child of the error of module parent[m].  An
\* error with children is a PickErrorChildren; one without is a
\* PickErrorParams, a PickErrorNotImplemented or a PickErrorChildren with
\* nothing in it.
LeafErrorTypes ==
    {"PickErrorParams", "PickErrorNotImplemented", "PickErrorChildren"}

RECURSIVE ErrorOf(_, _, _)
ErrorOf(parent, types, m) ==
    LET below == SelectSeq([i \in 1 .. Len(parent) |-> i],
                           LAMBDA c : parent[c] = m)
    IN  PickError(IF Len(below) = 0 THEN types[m] ELSE "PickErrorChildren",
                  m,
                  [i \in 1 .. Len(below) |->
                      [key |-> below[i],
                       value |-> ErrorOf(parent, types, below[i])]])

CallGetAllChildren ==
    /\ Idle
    /\ pc = "idle"
    /\ \E n \in GraphSizes :
         \E parent \in ParentSeqs(n), types \in [1 .. n -> LeafErrorTypes] :
           LET self == ErrorOf(parent, types, 1)
           IN  /\ is_PickErrorChildren(self)
               /\ Call("get_all_children", [self |-> self],
                       [value |-> get_all_children(self)], "none")

----------------------------------------------------------------------------
(* PickerProgress and pick_topologically *)

\* PickerProgress(tree): a task whose total is the number of leaves
PickerProgress(tree, disable) ==
    [total |-> Len(leaves(tree)), completed |-> 0, disable |-> disable,
     advances |-> <<>>]

advance_by_one(p, tree, mod) ==
    [p EXCEPT !.completed = p.completed + 1, !.advances = Append(@, 1)]

\* PickerProgress.advance(module)
advance(p, tree, mod) ==
    LET count == Len(leaves(get_subtree(tree, mod)))
        leaf_count == IF count = 0 THEN 1 ELSE count
    IN  [p EXCEPT !.completed = p.completed + leaf_count,
                  !.advances = Append(@, leaf_count)]

except_PickError_retry(rest, mod, subtree) ==
    [raise |-> FALSE, candidates |-> tree_setitem(rest, mod, subtree)]

except_PickError_always_descend(rest, mod, subtree) ==
    [raise |-> FALSE, candidates |-> tree_update(rest, subtree)]

\* except PickError: re-raise when the subtree is empty, else
\* candidates.update(subtree)
except_PickError(rest, mod, subtree) ==
    IF Len(subtree) = 0
    THEN [raise |-> TRUE, candidates |-> rest]
    ELSE [raise |-> FALSE, candidates |-> tree_update(rest, subtree)]

\* pick_part_recursively up to the loop of pick_topologically: the pick
\* tree of a module graph, its PickerProgress, candidates = tree.copy()
StartPick ==
    /\ Idle
    /\ pc = "idle"
    /\ \E n \in GraphSizes, NO_PROGRESS_BAR \in BOOLEAN :
         \E parent \in ParentSeqs(n), nodes \in [1 .. n -> NodeKinds] :
           LET tree == get_pick_tree(Graph(parent, nodes), 1)
           IN  /\ op' = "pick_topologically"
               /\ args' = [tree |-> tree]
               /\ res' = NoArgs
               /\ err' = "none"
               /\ candidates' = tree
               /\ attempts' = <<>>
               /\ picked' = {}
               /\ progress' = PickerProgress(tree, NO_PROGRESS_BAR)
               /\ pc' = "loop"
               /\ UNCHANGED paramvars

\* One iteration of the while loop.  The picker of the module either picks
\* a part, which gives the module has_part_picked, or raises PickError.
PickStep ==
    /\ pc = "loop"
    /\ Len(candidates) > 0
    /\ Len(attempts) <= MaxModules
    /\ LET item == popitem(candidates)
       IN  \E ok \in BOOLEAN :
             /\ attempts' = Append(attempts, [module |-> item.key, ok |-> ok])
             /\ \/ /\ ok
                   /\ picked' = picked \cup {item.key}
                   /\ progress' = advance(progress, args.tree, item.key)
                   /\ candidates' = item.rest
                   /\ UNCHANGED <<pc, res, err>>
                \/ /\ ~ok
                   /\ LET e == except_PickError(item.rest, item.key,
                                                item.value)
                      IN  /\ candidates' = e.candidates
                          /\ pc' = IF e.raise THEN "raised" ELSE "loop"
                          /\ err' = IF e.raise THEN "PickError" ELSE "none"
                          /\ res' = IF e.raise THEN [module |-> item.key]
                                    ELSE res
                   /\ UNCHANGED <<picked, progress>>
             /\ UNCHANGED <<op, args, paramvars>>

\* the loop ends when candidates is empty
PickReturn ==
    /\ pc = "loop"
    /\ Len(candidates) = 0
    /\ pc' = "returned"
    /\ UNCHANGED <<callvars, paramvars, candidates, attempts, picked, progress>>

\* the caller is done with the run
PickForget ==
    /\ pc \in {"returned", "raised"}
    /\ op' = "none"
    /\ args' = NoArgs
    /\ res' = NoArgs
    /\ err' = "none"
    /\ candidates' = EmptyTree
    /\ attempts' = <<>>
    /\ picked' = {}
    /\ progress' = NoProgress
    /\ pc' = "idle"
    /\ UNCHANGED paramvars

NextTree ==
    \/ CallGetPickTree
    \/ CallGetAllChildren
    \/ StartPick
    \/ PickStep
    \/ PickReturn
    \/ PickForget
    \/ Return

\* The loop runs in one thread with nothing to wait for: an iteration that
\* can run does run.
SpecTree ==
    Init /\ [][NextTree]_vars /\ WF_vars(PickStep) /\ WF_vars(PickReturn)

----------------------------------------------------------------------------
(* Vocabulary of the properties *)

\* x lies in [lo, hi], compared exactly
InInterval(I, x) == Le(I.min, x) /\ Le(x, I.max)

\* x lies in some interval of the sequence, compared exactly
InSome(U, x) == \E i \in 1 .. Len(U) : InInterval(U[i], x)

Dist(x, y) == AbsNum(Sub(x, y))

\* membership probes around the values the constructor bags are built from
BagProbes ==
    BagVals \cup {One, Int2Num(EPSILON_REL_INV - 1),
                  Int2Num(EPSILON_REL_INV + MaxNear + 1)}

A_ == args.self
B_ == args.other

----------------------------------------------------------------------------
(* C1 *)

SortedByMin(U) == \A k \in 1 .. Len(U) - 1 : Le(U[k].min, U[k + 1].min)

StrictlyApart(U) == \A k \in 1 .. Len(U) - 1 : Lt(U[k].max, U[k + 1].min)

SameMembers(U, inputs) ==
    \A x \in BagProbes :
        Disjoint_contains(U, x)
            <=> \E i \in 1 .. Len(inputs) : Interval_contains(inputs[i], x)

\* C1: the constructor's result is sorted ascending by lower bound, every
\* consecutive pair satisfies I_k.hi < I_{k+1}.lo, and x is a member of
\* the result iff x is a member of at least one input interval.
C1_Normalised ==
    op = "Numeric_Interval_Disjoint" =>
        /\ SortedByMin(res.intervals)
        /\ StrictlyApart(res.intervals)
        /\ SameMembers(res.intervals, Flat(args.bag))

----------------------------------------------------------------------------
(* C2 *)

\* C2: is_subset_of(A, B) is true iff (A.lo >= B.lo or the lower bounds
\* are close) and (A.hi <= B.hi or the upper bounds are close).
C2_SubsetIntent ==
    op = "is_subset_of" =>
        (res.value <=>
            /\ (Le(B_.min, A_.min) \/ isclose(A_.min, B_.min))
            /\ (Le(A_.max, B_.max) \/ isclose(A_.max, B_.max)))

----------------------------------------------------------------------------
(* C3 *)

MergeLeft(a, b) == IF Le(a.min, b.min) THEN a ELSE b
MergeRight(a, b) == IF Le(a.min, b.min) THEN b ELSE a

MergeExpected(a, b) ==
    LET left == MergeLeft(a, b)
        right == MergeRight(a, b)
    IN  IF Interval_contains(left, right.min)
        THEN <<[min |-> left.min, max |-> NumMax(left.max, right.max)]>>
        ELSE <<left, right>>

\* C3: in either argument order maybe_merge_interval returns the single
\* interval [left.lo, max(left.hi, right.hi)] iff right.lo is a member of
\* left, and otherwise both intervals in ascending order; so the two
\* argument orders return the same list.
C3_MergeOriented ==
    op = "maybe_merge_interval" =>
        /\ res.list = MergeExpected(A_, B_)
        /\ res.list = maybe_merge_interval(B_, A_)

----------------------------------------------------------------------------
(* C4, C5 *)

\* (A \ B) /\ B, computed on the stored difference
DiffMeetB == Disjoint_op_intersect_interval(res.intervals, B_)

\* A and B overlap in more than a point, and B does not cover A
ProperOverlap(a, b) ==
    /\ Lt(a.min, b.max) /\ Lt(b.min, a.max)
    /\ Lt(a.min, b.min) \/ Lt(b.max, a.max)

\* C4 as stated: the difference A \ B shares no element with B, i.e.
\* (A \ B) /\ B computed with op_intersect_interval is the empty set.
C4_DifferenceDisjoint ==
    op = "op_difference_interval" => is_empty(DiffMeetB)

\* C4 amended: (A \ B) /\ B holds at most the endpoints of B: each of its
\* constituents is a single point up to the tolerance and lies, up to the
\* tolerance, at B.lo or B.hi; it is empty when B covers A.
C4_DifferenceMeetsBoundaryOnly ==
    op = "op_difference_interval" =>
        /\ err = "none"
        /\ \A i \in 1 .. Len(DiffMeetB) :
              /\ isclose(DiffMeetB[i].min, DiffMeetB[i].max)
              /\ isclose(DiffMeetB[i].min, B_.min)
                    \/ isclose(DiffMeetB[i].min, B_.max)
        /\ (Le(B_.min, A_.min) /\ Le(A_.max, B_.max)) => is_empty(DiffMeetB)

\* a one-sided overlap: the difference keeps the endpoint it shares with B
C4_Witness ==
    /\ op = "op_difference_interval"
    /\ ProperOverlap(A_, B_)
    /\ Len(res.intervals) = 1
    /\ ~is_empty(DiffMeetB)

\* C5: the union of A \ B and A /\ B equals A as a one-interval union.
C5_DifferenceUnionIntersect ==
    op = "op_difference_interval" =>
        Disjoint_eq(
            op_union_intervals(res.intervals, op_intersect_interval(A_, B_)),
            <<A_>>)

\* an inner overlap: the difference has two pieces around B
C5_Witness ==
    /\ op = "op_difference_interval"
    /\ Lt(A_.min, B_.min) /\ Lt(B_.max, A_.max)
    /\ Len(res.intervals) = 2

----------------------------------------------------------------------------
(* C6 *)

CmpOps ==
    {"op_ge_intervals", "op_gt_intervals", "op_le_intervals",
     "op_lt_intervals"}

\* a op b on numbers
Related(name, a, b) ==
    CASE name = "op_ge_intervals" -> Le(b, a)
      [] name = "op_gt_intervals" -> Lt(b, a)
      [] name = "op_le_intervals" -> Le(a, b)
      [] name = "op_lt_intervals" -> Lt(a, b)

PointsOf(U) == {x \in Targets : InSome(U, x)}

\* C6: a comparison returns the empty boolean set iff A or B is empty;
\* otherwise the result is non-empty, contains true iff some pair
\* (a in A, b in B) satisfies a op b and contains false iff some pair
\* violates it.
C6_ComparisonByPairs ==
    op \in CmpOps =>
        /\ (res.value = {}) <=> (is_empty(A_) \/ is_empty(B_))
        /\ (~is_empty(A_) /\ ~is_empty(B_)) =>
              /\ (TRUE \in res.value) <=>
                    \E a \in PointsOf(A_), b \in PointsOf(B_) :
                        Related(op, a, b)
              /\ (FALSE \in res.value) <=>
                    \E a \in PointsOf(A_), b \in PointsOf(B_) :
                        ~Related(op, a, b)

\* two-interval unions that interleave: the comparison is undetermined
C6_Witness ==
    /\ op = "op_gt_intervals"
    /\ Len(A_) = 2
    /\ Len(B_) = 2
    /\ res.value = {TRUE, FALSE}

----------------------------------------------------------------------------
(* C7 *)

BoundsOf(U) == {U[i].min : i \in 1 .. Len(U)} \cup {U[i].max : i \in 1 .. Len(U)}

\* C7: on a non-empty union closest_elem returns without raising: the
\* target itself when it lies inside a constituent, otherwise the bound
\* of the union nearest to the target.
C7_ClosestElem ==
    (op = "closest_elem" /\ ~is_empty(A_)) =>
        /\ err = "none"
        /\ IF InSome(A_, args.target)
           THEN res.value = args.target
           ELSE /\ res.value \in BoundsOf(A_)
                /\ \A b \in BoundsOf(A_) :
                      Le(Dist(args.target, res.value), Dist(args.target, b))

----------------------------------------------------------------------------
(* C8 *)

CornerProduct(a, b) == IF a = Zero \/ b = Zero THEN Zero ELSE Mul(a, b)

Corners(a, b) ==
    {CornerProduct(x, y) : x \in {a.min, a.max}, y \in {b.min, b.max}}

----------------------------------------------------------------------------
(* C9 *)

Recip(x) == IF IsInf(x) THEN Zero ELSE [n |-> Sign(x) * x.d, d |-> AbsInt(x.n)]

Piece(lo, hi) == [min |-> lo, max |-> hi]

----------------------------------------------------------------------------
(* C10 *)

Two == Int2Num(2)

\* C10: center = (lo + hi) / 2 and rel = (hi - lo) / (2 * |center|), with
\* rel = (hi - lo) / 2 when center = 0; rel is never negative.
C10_CenterRel ==
    op = "as_center_rel" =>
        LET c == Div(Add(A_.min, A_.max), Two)
            w == Sub(A_.max, A_.min)
        IN  /\ res.center = c
            /\ res.rel = IF c = Zero THEN Div(w, Two)
                         ELSE Div(w, Mul(Two, AbsNum(c)))
            /\ Le(Zero, res.rel)

----------------------------------------------------------------------------
(* C11 *)

\* the options of the call that passed their filter
Filtered == SelectSeq(args.options, passes_filter)

\* the keys of the predicates mapping
PredicateKeys == {res.predicates[i].key : i \in 1 .. Len(res.predicates)}

\* pick_module_by_params ran to the point where predicates is complete
PredicatesBuilt ==
    /\ op = "pick_module_by_params"
    /\ args.module.has_part_picked = None
    /\ err # "KeyError"

\* C11: two options are equal exactly when their parts are equal, equal
\* options have equal hashes, and options that share a part are one key of
\* the predicates mapping.
C11_EqualByPart ==
    /\ op = "PickerOption.__eq__" =>
           /\ res.value <=> (args.self.part = args.other.part)
           /\ res.value => res.hash_self = res.hash_other
    /\ PredicatesBuilt =>
           \A i, j \in 1 .. Len(res.predicates) :
               res.predicates[i].key.part = res.predicates[j].key.part
                   => i = j

\* C11 as the code has it: two options are equal exactly when all five
\* fields are equal; the hash is that of the part, so equal options and
\* options sharing a part have equal hashes; options that share a part and
\* differ in another field stay separate keys of the predicates mapping,
\* which has one key per distinct filtered option.
C11_EqualByAllFields ==
    /\ op = "PickerOption.__eq__" =>
           /\ res.value <=> (args.self = args.other)
           /\ res.value => res.hash_self = res.hash_other
           /\ (args.self.part = args.other.part)
                  <=> (res.hash_self = res.hash_other)
    /\ PredicatesBuilt =>
           /\ PredicateKeys = {Filtered[i] : i \in 1 .. Len(Filtered)}
           /\ Len(res.predicates) = Cardinality(PredicateKeys)

\* two filtered options of one part that differ in params: two keys
C11_Witness ==
    /\ PredicatesBuilt
    /\ Len(Filtered) = 2
    /\ Filtered[1].part = Filtered[2].part
    /\ Filtered[1].params # Filtered[2].params
    /\ Len(res.predicates) = 2

----------------------------------------------------------------------------
(* C18, C19, C20 *)

PickCall == op = "pick_module_by_params"

\* what the call did, in order
Events == {res.events[i] : i \in 1 .. Len(res.events)}

SolverAsked == "solver.assert_any_predicate" \in Events

\* the module is as it was before the call and the supplier was not used
ModuleUntouched ==
    /\ module = args.module
    /\ res.attached = <<>>
    /\ Events \subseteq {"solver.assert_any_predicate"}

\* C18: on a module without a picked part, the call raises PickErrorParams
\* when no option passes its filter, then without asking the solver, and
\* when the solver answers with no true predicate; either way the module
\* gets no has_part_picked and no footprint-pinmap trait and no supplier
\* attach is made.
C18_PickErrorParams ==
    (PickCall /\ args.module.has_part_picked = None) =>
        /\ Len(Filtered) = 0 => (err = "PickErrorParams" /\ ~SolverAsked)
        /\ (SolverAsked /\ Len(args.true_predicates) = 0)
               => err = "PickErrorParams"
        /\ err = "PickErrorParams" => (ModuleUntouched /\ res.value = None)

\* options passed the filter, the solver was asked and proved none
C18_Witness ==
    /\ PickCall
    /\ args.module.has_part_picked = None
    /\ Len(Filtered) = MaxOptions
    /\ SolverAsked
    /\ Len(args.true_predicates) = 0
    /\ err = "PickErrorParams"

C20_PickedIsNoOp ==
    (PickCall /\ args.module.has_part_picked # None) =>
        /\ module = args.module
        /\ res.events = <<>>
        /\ res.attached = <<>>
        /\ res.value = None
        /\ err = "none"

\* a call on a picked module with an option of another part that passes
C20_Witness ==
    /\ PickCall
    /\ args.module.has_part_picked # None
    /\ Len(Filtered) > 0
    /\ Filtered[1].part # args.module.has_part_picked[1]
    /\ ~raises_KeyError(Filtered[1])

----------------------------------------------------------------------------
(* C12, C13 *)

\* every key of a tree, with repetitions, in depth-first order
RECURSIVE Keys(_)
Keys(t) ==
    IF Len(t) = 0 THEN <<>>
    ELSE <<Head(t).key>> \o Keys(Head(t).value) \o Keys(Tail(t))

TreeNodes(t) == {Keys(t)[i] : i \in 1 .. Len(Keys(t))}

TopLevel(t) == {t[i].key : i \in 1 .. Len(t)}

\* the modules directly under node m of the tree
ChildrenOf(t, m) == TopLevel(get_subtree(t, m))

\* the ancestors of m in the module graph, nearest first
RECURSIVE Ancestors(_, _)
Ancestors(graph, m) ==
    IF graph.parent[m] = 0 THEN <<>>
    ELSE <<graph.parent[m]>> \o Ancestors(graph, graph.parent[m])

Picked(graph, m) == graph.nodes[m].has_part_picked # None

\* m or one of its ancestors carries has_part_picked
Pruned(graph, m) ==
    \/ Picked(graph, m)
    \/ \E i \in 1 .. Len(Ancestors(graph, m)) :
           Picked(graph, Ancestors(graph, m)[i])

Pickable(graph, m) ==
    /\ graph.nodes[m].type = "Module"
    /\ graph.nodes[m].has_picker # None
    /\ graph.nodes[m].skip_self_pick = None
    /\ ~Pruned(graph, m)

\* the nearest ancestor of m that is a node of the tree, 0 when there is none
NearestNode(graph, t, m) ==
    LET a == SelectSeq(Ancestors(graph, m), LAMBDA x : x \in TreeNodes(t))
    IN  IF Len(a) = 0 THEN 0 ELSE a[1]

----------------------------------------------------------------------------
(* C14, C15, C16, C17 *)

NodeCount(t) == Len(Keys(t))

\* the step is one iteration of the loop of pick_topologically
Iteration == Len(attempts') = Len(attempts) + 1

\* the module the iteration popped, and whether its pick succeeded
Popped == attempts'[Len(attempts')].module
PoppedOk == attempts'[Len(attempts')].ok

Ended == pc \in {"returned", "raised"}

\* C14: every run of pick_topologically ends; an iteration takes one module
\* out of the working set and puts in at most that module's direct
\* pick-tree children; there are at most as many iterations as the tree
\* has nodes.
C14_Terminates ==
    /\ [](pc # "idle" => Len(attempts) <= NodeCount(args.tree))
    /\ [][Iteration =>
            /\ Popped \in TopLevel(candidates)
            /\ Popped \notin TopLevel(candidates')
            /\ Len(candidates') = Cardinality(TopLevel(candidates'))
            /\ TopLevel(candidates') \subseteq
                   (TopLevel(candidates) \ {Popped})
                       \cup ChildrenOf(args.tree, Popped)]_vars
    /\ (pc = "loop") ~> Ended

\* a run over a tree of MaxModules nodes that attempted every one of them,
\* so every module with a subtree failed, and returned
C14_Witness ==
    /\ pc = "returned"
    /\ NodeCount(args.tree) = MaxModules
    /\ Len(attempts) = MaxModules

\* C15: when a pick raises PickError and the module's subtree is not empty,
\* the error is swallowed, exactly the module's direct pick-tree children
\* go into the working set and the loop goes on; when the subtree is empty
\* that PickError leaves pick_topologically at once, nothing more is
\* attempted and what was picked before stays picked.
C15_ErrorHandling ==
    [][/\ (Iteration /\ ~PoppedOk) =>
              /\ picked' = picked
              /\ progress' = progress
              /\ IF ChildrenOf(args.tree, Popped) # {}
                 THEN /\ pc' = "loop"
                      /\ err' = "none"
                      /\ TopLevel(candidates') =
                             (TopLevel(candidates) \ {Popped})
                                 \cup ChildrenOf(args.tree, Popped)
                      /\ TopLevel(candidates) \cap
                             ChildrenOf(args.tree, Popped) = {}
                 ELSE /\ pc' = "raised"
                      /\ err' = "PickError"
                      /\ res' = [module |-> Popped]
       /\ pc = "raised" =>
              (~Iteration /\ (pc' = "raised" => picked' = picked))]_vars

\* a run that picked a module, swallowed a failure and then raised
C15_Witness ==
    /\ pc = "raised"
    /\ picked # {}
    /\ \E i \in 1 .. (Len(attempts) - 1) : ~attempts[i].ok
    /\ Len(candidates) > 0

Successes == SelectSeq(attempts, LAMBDA a : a.ok)

\* the leaves below a module of the tree, the module itself when it is one
LeafCount(t, m) ==
    Cardinality({x \in TreeNodes(get_subtree(t, m)) : ChildrenOf(t, x) = {}})
        + (IF ChildrenOf(t, m) = {} THEN 1 ELSE 0)

RECURSIVE Sum(_)
Sum(q) == IF Len(q) = 0 THEN 0 ELSE Head(q) + Sum(Tail(q))

\* C16: advance is called once for every module picked, with the number of
\* leaves of its subtree (1 for a leaf); what was advanced never exceeds the
\* task total, the number of leaves of the pick tree, and equals it when the
\* run returns, whatever failures were recovered and whether or not the
\* progress bar is disabled.
C16_ProgressExact ==
    pc # "idle" =>
        /\ progress.total =
               Cardinality({x \in TreeNodes(args.tree) :
                               ChildrenOf(args.tree, x) = {}})
        /\ Len(progress.advances) = Len(Successes)
        /\ \A i \in 1 .. Len(Successes) :
               progress.advances[i] = LeafCount(args.tree, Successes[i].module)
        /\ progress.completed = Sum(progress.advances)
        /\ progress.completed <= progress.total
        /\ pc = "returned" => progress.completed = progress.total

\* the progress bar is disabled, a failure was recovered and a module with
\* two leaves below it was picked
C16_Witness ==
    /\ pc = "returned"
    /\ progress.disable
    /\ \E i \in 1 .. Len(attempts) : ~attempts[i].ok
    /\ \E i \in 1 .. Len(progress.advances) : progress.advances[i] = 2

Attempted(m) == \E i \in 1 .. Len(attempts) : attempts[i].module = m

\* m1 was attempted, and before m2 if m2 was attempted at all
AttemptedBefore(m1, m2) ==
    \E i \in 1 .. Len(attempts) :
        /\ attempts[i].module = m1
        /\ \A j \in 1 .. i : attempts[j].module # m2

\* C17: the top-level entries are attempted in the order they were
\* inserted in: of two of them, the one inserted first is attempted first.
C17_InsertionOrder ==
    pc # "idle" =>
        \A i, j \in 1 .. Len(args.tree) :
            (i < j /\ Attempted(args.tree[j].key))
                => AttemptedBefore(args.tree[i].key, args.tree[j].key)

\* C17 as the code has it: popitem takes the entry inserted last, so of two
\* top-level entries the one inserted later is attempted first, and so is
\* every module below it that is attempted at all.
C17_ReverseInsertionOrder ==
    pc # "idle" =>
        \A i, j \in 1 .. Len(args.tree) :
            (i < j /\ Attempted(args.tree[i].key)) =>
                /\ AttemptedBefore(args.tree[j].key, args.tree[i].key)
                /\ \A d \in TreeNodes(args.tree[j].value) :
                       Attempted(d) => AttemptedBefore(d, args.tree[i].key)

\* two top-level entries, the later one failed, a module below it was
\* attempted, and then the earlier one
C17_Witness ==
    /\ pc # "idle"
    /\ Len(args.tree) = 2
    /\ Attempted(args.tree[1].key)
    /\ \E d \in TreeNodes(args.tree[2].value) : Attempted(d)

----------------------------------------------------------------------------
(* C28 *)

\* the node of the tree that has m directly below it, 0 for a top-level m
TreeParent(t, m) ==
    IF \E q \in TreeNodes(t) : m \in ChildrenOf(t, q)
    THEN CHOOSE q \in TreeNodes(t) : m \in ChildrenOf(t, q)
    ELSE 0

\* C28: in a run of pick_topologically no module is attempted twice; a
\* module below another one is attempted only after its pick-tree parent
\* was attempted and failed; below a module whose pick succeeded nothing is
\* attempted.
C28_AttemptedOnceParentFirst ==
    pc # "idle" =>
        /\ \A i, j \in 1 .. Len(attempts) :
               attempts[i].module = attempts[j].module => i = j
        /\ \A i \in 1 .. Len(attempts) :
               LET m == attempts[i].module
                   q == TreeParent(args.tree, m)
               IN  /\ m \in TreeNodes(args.tree)
                   /\ q # 0 =>
                          \E j \in 1 .. (i - 1) :
                              attempts[j].module = q /\ ~attempts[j].ok
                   /\ attempts[i].ok =>
                          \A d \in TreeNodes(get_subtree(args.tree, m)) :
                              ~Attempted(d)

\* in one ended run: a module failed and its child was attempted after it,
\* and another module with a child was picked
C28_Witness ==
    /\ Ended
    /\ \E i, j \in 1 .. Len(attempts) :
           /\ i < j
           /\ ~attempts[i].ok
           /\ TreeParent(args.tree, attempts[j].module) = attempts[i].module
    /\ \E i \in 1 .. Len(attempts) :
           /\ attempts[i].ok
           /\ ChildrenOf(args.tree, attempts[i].module) # {}

----------------------------------------------------------------------------
(* C21 *)

\* every (module, error) pair of the dicts nested in e
RECURSIVE AllPairs(_)
AllPairs(e) ==
    {<<e.children[i].key, e.children[i].value>> : i \in 1 .. Len(e.children)}
        \cup UNION {AllPairs(e.children[i].value) : i \in 1 .. Len(e.children)}

\* C21: for nested PickErrorChildren with distinct module keys,
\* get_all_children is a flat mapping of exactly the (module, error) pairs,
\* at any depth, whose error is not a PickErrorChildren; no value of it is a
\* PickErrorChildren.
C21_GetAllChildrenFlat ==
    op = "get_all_children" =>
        LET flat == res.value
            pairs == {<<flat[i].key, flat[i].value>> : i \in 1 .. Len(flat)}
        IN  /\ pairs = {q \in AllPairs(args.self) : ~is_PickErrorChildren(q[2])}
            /\ Len(flat) = Cardinality({flat[i].key : i \in 1 .. Len(flat)})
            /\ \A i \in 1 .. Len(flat) : ~is_PickErrorChildren(flat[i].value)

\* a leaf error two levels down, beside an empty PickErrorChildren
C21_Witness ==
    /\ op = "get_all_children"
    /\ \E i \in 1 .. Len(args.self.children) :
         LET v == args.self.children[i].value
         IN  \E j, k \in 1 .. Len(v.children) :
               /\ ~is_PickErrorChildren(v.children[j].value)
               /\ is_PickErrorChildren(v.children[k].value)
               /\ \E x \in 1 .. Len(res.value) :
                      res.value[x].key = v.children[j].key

----------------------------------------------------------------------------
\* Absolute value, power, intersection of unions, serialisation, and the
\* error-collecting loop

\* Numeric_Interval.op_abs
op_abs(self) ==
    IF Lt(self.min, Zero) /\ Lt(Zero, self.max)
    THEN Numeric_Interval(Zero, self.max)
    ELSE IF Lt(self.min, Zero) /\ Lt(self.max, Zero)
    THEN Numeric_Interval(Neg(self.max), Neg(self.min))
    ELSE IF Lt(self.min, Zero) /\ self.max = Zero
    THEN Numeric_Interval(Zero, Neg(self.min))
    ELSE IF self.min = Zero /\ Lt(self.max, Zero)
    THEN Numeric_Interval(self.max, Zero)
    ELSE self

CallAbs ==
    /\ Idle
    /\ \E A \in IntervalsOver(ExtVals) :
           Call("op_abs", [self |-> A], [value |-> op_abs(A)], "none")

\* a bound of a Numeric_Interval together with its Python type: `int` says
\* whether the value is an int (otherwise it is a float)
Typed(lo, hi, int_lo, int_hi) ==
    LET I == Numeric_Interval(lo, hi)
    IN  [min |-> I.min, max |-> I.max, int_min |-> int_lo, int_max |-> int_hi]

\* Numeric_Interval.op_negate
op_negate(self) ==
    Typed(Neg(self.max), Neg(self.min), self.int_max, self.int_min)

\* int.is_integer and float.is_integer
value_is_integer(x) == ~IsInf(x) /\ x.d = 1

\* Numeric_Interval.is_integer
is_integer(self) ==
    \/ self.int_min /\ self.int_max
    \/ self.min = self.max /\ value_is_integer(self.min)

\* Numeric_Interval_Disjoint.op_invert
Disjoint_op_invert(self) ==
    Numeric_Interval_Disjoint(
        [i \in 1 .. Len(self) |-> DisjointItem(op_invert(self[i]))])

\* x ** k for a natural number k
RECURSIVE IntPow(_, _)
IntPow(x, k) ==
    IF k = 0 THEN One
    ELSE IF x = Zero \/ x = One THEN x
    ELSE IF x = Neg(One) THEN IF k % 2 = 0 THEN One ELSE x
    ELSE Mul(x, IntPow(x, k - 1))

ISqrt(n) == CHOOSE r \in 0 .. n : r * r = n

\* x ** y of Python for y >= 0; a fractional y is a multiple of 1/2 and is
\* applied to perfect squares only
py_pow(x, y) ==
    IF y = Zero THEN One
    ELSE IF y = PInf
    THEN IF Lt(One, AbsNum(x)) THEN PInf
         ELSE IF AbsNum(x) = One THEN One ELSE Zero
    ELSE IF x = PInf THEN PInf
    ELSE IF x = NInf
    THEN IF value_is_integer(y) /\ y.n % 2 = 1 THEN NInf ELSE PInf
    ELSE IF value_is_integer(y) THEN IntPow(x, y.n)
    ELSE IntPow(Rat(ISqrt(x.n), ISqrt(x.d)), y.n)

\* the binary exponent at which a double leaves the finite range: 2.0 ** 1024
\* raises OverflowError
FLOAT_MAX_EXP == 1024

\* x ** y raises OverflowError when the result is a float too large to
\* represent; an int ** int never does. For |x| >= 2 and y >= FLOAT_MAX_EXP
\* the result is at least 2 ** 1024.
raises_OverflowError(x, int_x, y, int_y) ==
    /\ ~(int_x /\ int_y)
    /\ ~IsInf(x) /\ ~IsInf(y)
    /\ Le(Int2Num(2), AbsNum(x))
    /\ Le(Int2Num(FLOAT_MAX_EXP), y)

\* op_pow_interval._pow
_pow(x, int_x, y, int_y) ==
    IF raises_OverflowError(x, int_x, y, int_y)
    THEN IF Lt(Zero, x) THEN PInf ELSE NInf
    ELSE py_pow(x, y)

MinOf(values) == CHOOSE m \in values : \A v \in values : Le(m, v)
MaxOf(values) == CHOOSE m \in values : \A v \in values : Le(v, m)

PowResult(intervals, error) == [intervals |-> intervals, error |-> error]

\* Numeric_Interval.op_pow_interval
RECURSIVE op_pow_interval(_, _)
op_pow_interval(self, other) ==
    IF Lt(other.max, Zero)
    THEN LET r == op_pow_interval(self, op_negate(other))
         IN  IF r.error # "none" THEN r
             ELSE LET inv == Disjoint_op_invert(r.intervals)
                  IN  PowResult(inv, IF HasRaised(inv) THEN "ValueError"
                                     ELSE "none")
    ELSE IF Lt(other.min, Zero)
    THEN PowResult(<<>>, "NotImplementedError")
    ELSE IF Lt(self.max, Zero) /\ ~value_is_integer(other.min)
    THEN PowResult(<<>>, "NotImplementedError")
    ELSE IF ~is_integer(other) /\ Lt(self.min, Zero)
    THEN PowResult(<<>>, "NotImplementedError")
    ELSE LET a == self.min
             b == self.max
             c == other.min
             d == other.max
             values ==
                 {_pow(a, self.int_min, c, other.int_min),
                  _pow(a, self.int_min, d, other.int_max),
                  _pow(b, self.int_max, c, other.int_min),
                  _pow(b, self.int_max, d, other.int_max)}
                     \cup IF Lt(a, Zero) /\ Lt(Zero, b)
                          THEN {py_pow(Zero, c), py_pow(Zero, d)}
                                   \cup IF /\ value_is_integer(d)
                                           /\ d.n % 2 = 1
                                           /\ Lt(c, Sub(d, One))
                                        THEN {_pow(a, self.int_min,
                                                   Sub(d, One), other.int_max)}
                                        ELSE {}
                          ELSE {}
             I == Numeric_Interval(MinOf(values), MaxOf(values))
         IN  IF I = Raised THEN PowResult(<<>>, "ValueError")
             ELSE PowResult(Numeric_Interval_Disjoint(<<IntervalItem(I)>>),
                            "none")

\* the largest exponent of the small exponents
MaxExp == 4

\* a value with its Python type
Value(v, is_int) == [v |-> v, int |-> is_int]

\* bases: squares and their negatives as int and as float, and the infinities
PowBaseVals ==
    {Value(Int2Num(k), t) : k \in {-4, -1, 0, 1, 4}, t \in BOOLEAN}
        \cup {Value(NInf, FALSE), Value(PInf, FALSE)}

\* exponents: small integers as int and as float, the halves, a float at
\* which 2.0 ** y overflows, and the infinities
PowExpVals ==
    {Value(Int2Num(k), t) : k \in (-MaxExp) .. MaxExp, t \in BOOLEAN}
        \cup {Value(Rat(-1, 2), FALSE), Value(Rat(1, 2), FALSE),
              Value(Int2Num(FLOAT_MAX_EXP), FALSE),
              Value(NInf, FALSE), Value(PInf, FALSE)}

TypedIntervals(V) ==
    {Typed(lo.v, hi.v, lo.int, hi.int) :
        <<lo, hi>> \in {p \in V \X V : /\ Le(p[1].v, p[2].v)
                                       /\ p[1].v # PInf
                                       /\ p[2].v # NInf}}

CallPow ==
    /\ Idle
    /\ \E A \in TypedIntervals(PowBaseVals), B \in TypedIntervals(PowExpVals) :
           LET r == op_pow_interval(A, B)
           IN  Call("op_pow_interval", [self |-> A, other |-> B],
                    [intervals |-> r.intervals], r.error)

\* faulty variant of the loop of op_intersect_intervals: when rs ends before
\* ro both pointers move on
RECURSIVE intersect_loop_advance_both(_, _, _, _, _)
intersect_loop_advance_both(self, other, s, o, result) ==
    IF s < Len(self) /\ o < Len(other)
    THEN LET rs == self[s + 1]
             ro == other[o + 1]
             intersect == op_intersect_interval(rs, ro)
             result_ == IF ~is_empty(intersect)
                        THEN Append(result, DisjointItem(intersect))
                        ELSE result
         IN  IF Lt(rs.max, ro.min)
             THEN intersect_loop_advance_both(self, other, s + 1, o, result_)
             ELSE IF Lt(ro.max, rs.min)
             THEN intersect_loop_advance_both(self, other, s, o + 1, result_)
             ELSE intersect_loop_advance_both(self, other, s + 1, o + 1,
                                              result_)
    ELSE result

\* the while loop of op_intersect_intervals from the pointers s and o on
RECURSIVE intersect_loop(_, _, _, _, _)
intersect_loop(self, other, s, o, result) ==
    IF s < Len(self) /\ o < Len(other)
    THEN LET rs == self[s + 1]
             ro == other[o + 1]
             intersect == op_intersect_interval(rs, ro)
             result_ == IF ~is_empty(intersect)
                        THEN Append(result, DisjointItem(intersect))
                        ELSE result
         IN  IF Lt(rs.max, ro.min)
             THEN intersect_loop(self, other, s + 1, o, result_)
             ELSE IF Lt(ro.max, rs.min)
             THEN intersect_loop(self, other, s, o + 1, result_)
             ELSE IF Lt(rs.max, ro.max)
             THEN intersect_loop(self, other, s + 1, o, result_)
             ELSE IF Lt(ro.max, rs.max)
             THEN intersect_loop(self, other, s, o + 1, result_)
             ELSE intersect_loop(self, other, s + 1, o + 1, result_)
    ELSE result

\* Numeric_Interval_Disjoint.op_intersect_intervals
op_intersect_intervals(self, other) ==
    Numeric_Interval_Disjoint(intersect_loop(self, other, 0, 0, <<>>))

CallIntersectIntervals ==
    /\ Idle
    /\ \E U \in {CmpUnions, BagUnions} :
           \E A \in U, B \in U :
               LET r == op_intersect_intervals(A, B)
               IN  Call("op_intersect_intervals", [self |-> A, other |-> B],
                        [intervals |-> r], ErrOf(r))

\* what the body of a `with cltr():` block did for one item: it ran, and it
\* raised an error or none
BodyOutcome(ran, raised) == [ran |-> ran, raised |-> raised]

\* iter_through_errors: the body runs for every item of the iterable; an
\* error it raises is collected and the loop goes on; the collected errors
\* are the ExceptionGroup raised after the last item (none when empty)
RECURSIVE collected_errors(_)
collected_errors(outcomes) ==
    IF Len(outcomes) = 0 THEN <<>>
    ELSE (IF Head(outcomes).raised = None THEN <<>>
          ELSE <<Head(outcomes).raised[1]>>)
             \o collected_errors(Tail(outcomes))

iter_through_errors(items, outcomes) ==
    [visited |-> items, exceptions |-> collected_errors(outcomes)]

ErrOfGroup(r) == IF Len(r.exceptions) = 0 THEN "none" ELSE "ExceptionGroup"

AtoError(message) == [type |-> "AtoError", message |-> message]

\* the loop body of test_iter_through_errors
test_body(i) ==
    IF i = 1 THEN BodyOutcome(TRUE, Some(AtoError("test error")))
    ELSE IF i = 2 THEN BodyOutcome(TRUE, Some(AtoError("test error 2")))
    ELSE BodyOutcome(TRUE, None)

\* range(n)
range(n) == [i \in 1 .. n |-> i - 1]

\* the largest range iterated in the test
MaxItems == 4

CallIterThroughErrors ==
    /\ Idle
    /\ \E n \in 0 .. MaxItems :
           LET items == range(n)
               r == iter_through_errors(
                        items, [i \in 1 .. n |-> test_body(items[i])])
           IN  Call("iter_through_errors", [items |-> items], r, ErrOfGroup(r))

\* a dependency of the project configuration; `git` is what install_dependency
\* does for it: it succeeds, or git fails because the directory already exists
\* and is not empty, or git fails otherwise
Dependency(name, link_broken, git) ==
    [name |-> name, link_broken |-> link_broken, git |-> git]

GitOutcomes == {"ok", "already exists", "other"}

\* faulty variant of the loop body of install_project_dependencies: a git
\* failure other than an existing directory is dropped
install_body_drop_git_error(dependency) ==
    IF ~dependency.link_broken
    THEN IF dependency.git = "already exists"
         THEN BodyOutcome(TRUE, Some([type |-> "UserException",
                                      name |-> dependency.name]))
         ELSE BodyOutcome(TRUE, None)
    ELSE BodyOutcome(FALSE, None)

\* the loop body of install_project_dependencies
install_body(dependency) ==
    IF ~dependency.link_broken
    THEN IF dependency.git = "ok" THEN BodyOutcome(TRUE, None)
         ELSE IF dependency.git = "already exists"
         THEN BodyOutcome(TRUE, Some([type |-> "UserException",
                                      name |-> dependency.name]))
         ELSE BodyOutcome(TRUE, Some([type |-> "GitCommandError",
                                      name |-> dependency.name]))
    ELSE BodyOutcome(FALSE, None)

\* install_project_dependencies; `installed` lists the dependencies handed to
\* install_dependency, in order
install_project_dependencies(dependencies) ==
    LET outcomes == [i \in 1 .. Len(dependencies) |->
                        install_body(dependencies[i])]
        r == iter_through_errors(dependencies, outcomes)
        ran == SelectSeq([i \in 1 .. Len(dependencies) |->
                             [name |-> dependencies[i].name,
                              ran |-> outcomes[i].ran]],
                         LAMBDA e : e.ran)
    IN  [visited |-> r.visited,
         exceptions |-> r.exceptions,
         installed |-> [i \in 1 .. Len(ran) |-> ran[i].name]]

\* the largest number of dependencies of a project
MaxDeps == 3

DependencyLists ==
    UNION {{[i \in 1 .. n |-> Dependency(i, f[i][1], f[i][2])] :
               f \in [1 .. n -> BOOLEAN \X GitOutcomes]} : n \in 0 .. MaxDeps}

CallInstallProjectDependencies ==
    /\ Idle
    /\ \E dependencies \in DependencyLists :
           LET r == install_project_dependencies(dependencies)
           IN  Call("install_project_dependencies",
                    [dependencies |-> dependencies], r, ErrOfGroup(r))

\* Numeric_Interval.serialize_pset: a dict with a null for an infinite bound
Interval_serialize_pset(self) ==
    [min |-> IF IsInf(self.min) THEN None ELSE Some(self.min),
     max |-> IF IsInf(self.max) THEN None ELSE Some(self.max)]

\* faulty variant of deserialize_pset: a null bound is read as 0
Interval_deserialize_pset_null_as_zero(data) ==
    LET min_ == IF data.min # None THEN data.min[1] ELSE Zero
        max_ == IF data.max # None THEN data.max[1] ELSE Zero
    IN  Numeric_Interval(min_, max_)

\* Numeric_Interval.deserialize_pset
Interval_deserialize_pset(data) ==
    LET min_ == IF data.min # None THEN data.min[1] ELSE NInf
        max_ == IF data.max # None THEN data.max[1] ELSE PInf
    IN  Numeric_Interval(min_, max_)

\* P_Set.serialize and P_Set.deserialize: the serialised set under the name of
\* its class
P_Set_serialize(r) ==
    [type |-> "Numeric_Interval", data |-> Interval_serialize_pset(r)]

P_Set_deserialize(r) == Interval_deserialize_pset(r.data)

\* Numeric_Interval_Disjoint.serialize_pset
Disjoint_serialize_pset(self) ==
    [intervals |-> [i \in 1 .. Len(self) |-> P_Set_serialize(self[i])]]

\* Numeric_Interval_Disjoint.deserialize_pset
Disjoint_deserialize_pset(data) ==
    Numeric_Interval_Disjoint(
        AsIntervalItems([i \in 1 .. Len(data.intervals) |->
                            P_Set_deserialize(data.intervals[i])]))

CallSerializeInterval ==
    /\ Idle
    /\ \E I \in ExtIntervals \cup SetIntervals :
           LET data == Interval_serialize_pset(I)
               back == Interval_deserialize_pset(data)
           IN  Call("Numeric_Interval.serialize_pset", [self |-> I],
                    [data |-> data, deserialized |-> back],
                    IF back = Raised THEN "raised" ELSE "none")

CallSerializeDisjoint ==
    /\ Idle
    /\ \E U \in CmpUnions \cup BagUnions :
           LET data == Disjoint_serialize_pset(U)
               back == Disjoint_deserialize_pset(data)
           IN  Call("Numeric_Interval_Disjoint.serialize_pset", [self |-> U],
                    [data |-> data, deserialized |-> back], ErrOf(back))

NextAlgebra ==
    \/ CallAbs
    \/ CallPow
    \/ CallIntersectIntervals
    \/ CallSerializeInterval
    \/ CallSerializeDisjoint
    \/ CallIterThroughErrors
    \/ CallInstallProjectDependencies
    \/ Return

SpecAlgebra == Init /\ [][NextAlgebra]_vars

----------------------------------------------------------------------------
\* C25: op_abs(A) is the set of absolute values of the members of A: |x| is
\* in op_abs(A) for every x in A, every member of op_abs(A) is |x| for some
\* x in A, and a zero-crossing [lo, hi] gives [0, max(-lo, hi)].

\* the half-integer points around the bounds
AbsPoints == {Rat(k, 2) : k \in (-2 * (MaxVal + 1)) .. (2 * (MaxVal + 1))}

C25_AbsValues ==
    op = "op_abs" =>
        LET A == args.self
            R == res.value
        IN  /\ \A x \in AbsPoints :
                   Interval_contains(A, x) => Interval_contains(R, AbsNum(x))
            /\ \A y \in AbsPoints :
                   Interval_contains(R, y) =>
                       /\ Le(Zero, y)
                       /\ Interval_contains(A, y) \/ Interval_contains(A, Neg(y))
            /\ (Lt(A.min, Zero) /\ Lt(Zero, A.max)) =>
                   R = Numeric_Interval(Zero, NumMax(Neg(A.min), A.max))

\* C27: for a base [a, b] with integer bounds and an exponent [c, d] with
\* integer bounds 0 <= c <= d, a returned power contains x^k for x = a,
\* x = b (and x = 0 when a < 0 < b) and every integer k with c <= k <= d.
PowBase == args.self
PowExp == args.other

IntegerBounds(I) == value_is_integer(I.min) /\ value_is_integer(I.max)

C27_PowSoundForIntegers ==
    (/\ op = "op_pow_interval"
     /\ err = "none"
     /\ IntegerBounds(PowBase)
     /\ IntegerBounds(PowExp)
     /\ Le(Zero, PowExp.min)
     /\ Le(PowExp.max, Int2Num(MaxExp)))
        => \A x \in {PowBase.min, PowBase.max}
                      \cup IF Lt(PowBase.min, Zero) /\ Lt(Zero, PowBase.max)
                           THEN {Zero} ELSE {} :
               \A k \in PowExp.min.n .. PowExp.max.n :
                   Disjoint_contains(res.intervals, IntPow(x, k))

\* C22: op_pow_interval fails with NotImplementedError whenever the exponent
\* straddles zero (c < 0 <= d) or the base contains a negative number while
\* the exponent is not integer; when d < 0 it computes [a,b]^[-d,-c] and
\* reciprocates; in every other case it returns a one-interval union without
\* raising.
Unsupported(base, exponent) ==
    \/ Lt(exponent.min, Zero) /\ Le(Zero, exponent.max)
    \/ Lt(base.min, Zero) /\ ~is_integer(exponent)

C22_PowCases ==
    op = "op_pow_interval" =>
        IF Unsupported(PowBase, PowExp) THEN err = "NotImplementedError"
        ELSE IF Lt(PowExp.max, Zero)
        THEN LET inner == op_pow_interval(PowBase, op_negate(PowExp))
             IN  inner.error = "none" =>
                     res.intervals = Disjoint_op_invert(inner.intervals)
        ELSE err = "none" /\ Len(res.intervals) = 1

\* C26: for normalised unions A and B the two-pointer op_intersect_intervals
\* equals the normalised union of the intersections of every constituent of
\* A with every constituent of B; x is in the result iff x is in A and in B;
\* and the operation is commutative.
IntersectA == args.self
IntersectB == args.other

PairwiseIntersections(A, B) ==
    [k \in 1 .. (Len(A) * Len(B)) |->
        DisjointItem(op_intersect_interval(A[((k - 1) \div Len(B)) + 1],
                                           B[((k - 1) % Len(B)) + 1]))]

Failing(dependency) == ~dependency.link_broken /\ dependency.git # "ok"

NamesOf(deps) == [i \in 1 .. Len(deps) |-> deps[i].name]

C23_SerialiseRoundTrip ==
    /\ op = "Numeric_Interval.serialize_pset" =>
           /\ err = "none"
           /\ res.deserialized = args.self
           /\ Interval_eq(res.deserialized, args.self)
           /\ res.data.min = None <=> args.self.min = NInf
           /\ res.data.max = None <=> args.self.max = PInf
           /\ res.data.min # None => res.data.min[1] = args.self.min
           /\ res.data.max # None => res.data.max[1] = args.self.max
    /\ op = "Numeric_Interval_Disjoint.serialize_pset" =>
           /\ err = "none"
           /\ Len(res.data.intervals) = Len(args.self)
           /\ res.deserialized = args.self
           /\ Disjoint_eq(res.deserialized, args.self)

\* a union of two constituents, the first with an infinite lower bound that
\* is written as null
C23_Witness ==
    /\ op = "Numeric_Interval_Disjoint.serialize_pset"
    /\ Len(args.self) = 2
    /\ args.self[1].min = NInf
    /\ res.data.intervals[1].data.min = None
    /\ res.data.intervals[2].data.max # None

====
